---- MODULE Spec2Model ----
(***************************************************************************)
(* Model of src/data_ingestion.py: the four pipeline functions             *)
(* (load_params, load_data, preprocess_data, save_data), the library calls *)
(* they make (DataFrame.drop / DataFrame.rename / train_test_split /       *)
(* os.makedirs / DataFrame.to_csv) and main, which composes them inside    *)
(* one try/except.                                                         *)
(*                                                                         *)
(* Spec      : one run of main.                                            *)
(* SpecCalls : a caller that obtains a frame and calls preprocess_data on  *)
(*             it repeatedly (the function called directly, as a test      *)
(*             would).                                                     *)
(***************************************************************************)
EXTENDS Integers, Sequences, FiniteSets, TLC

\* Bounds of the model.
MaxRows == 3        \* rows of the CSV: 0..MaxRows
MaxCalls == 2       \* direct calls of preprocess_data under SpecCalls

None == "None"      \* Python's None, and "no exception in flight"
NoRef == 0          \* a reference that is None

(***************************************************************************)
(* Exceptions.  An exception is modelled by its class; Bases gives the     *)
(* classes an `except <cls>` clause matches it with.                       *)
(***************************************************************************)
Bases(t) ==
    CASE t = "FileNotFoundError"  -> {"FileNotFoundError", "OSError", "Exception"}
      [] t = "PermissionError"    -> {"PermissionError", "OSError", "Exception"}
      [] t = "OSError"            -> {"OSError", "Exception"}
      [] t = "URLError"           -> {"URLError", "OSError", "Exception"}
      [] t = "YAMLError"          -> {"YAMLError", "Exception"}
      [] t = "UnicodeDecodeError" -> {"UnicodeDecodeError", "ValueError", "Exception"}
      [] t = "ParserError"        -> {"ParserError", "ValueError", "Exception"}
      [] t = "EmptyDataError"     -> {"EmptyDataError", "ValueError", "Exception"}
      [] t = "ValueError"         -> {"ValueError", "Exception"}
      [] t = "KeyError"           -> {"KeyError", "LookupError", "Exception"}
      [] t = "TypeError"          -> {"TypeError", "Exception"}
      [] t = "AttributeError"     -> {"AttributeError", "Exception"}
      [] OTHER                    -> {}

IsInstance(e, cls) == e # None /\ cls \in Bases(e)

(***************************************************************************)
(* Logging: one record per line handed to the logger 'data_ingestion'.     *)
(***************************************************************************)
LogLine(level, fn, msg, arg) ==
    [level |-> level, name |-> "data_ingestion", fn |-> fn, msg |-> msg, arg |-> arg]

Errors(lines) == SelectSeq(lines, LAMBDA l : l.level = "ERROR")

(***************************************************************************)
(* load_params                                                             *)
(***************************************************************************)
\* What params.yaml can hold: nothing (yaml gives None), a mapping without
\* the key, or a mapping with data_ingestion.test_size.
NoSize == [kind |-> "none", num |-> 0, den |-> 1]
FloatSize(n, d) == [kind |-> "f", num |-> n, den |-> d]
IntSize(k) == [kind |-> "i", num |-> k, den |-> 1]
TestSizes ==
    { FloatSize(1, 5), FloatSize(0, 1), IntSize(1), [kind |-> "s", num |-> 0, den |-> 1], NoSize }

NoParams == [shape |-> "None", test_size |-> NoSize]
ParamsValues ==
    { NoParams, [shape |-> "nokey", test_size |-> NoSize] }
    \cup { [shape |-> "ok", test_size |-> ts] : ts \in TestSizes }

\* What open() + yaml.safe_load() do with the file.
ParamsOutcomes ==
    { [exc |-> e, val |-> NoParams] :
        e \in {"FileNotFoundError", "PermissionError", "YAMLError", "UnicodeDecodeError"} }
    \cup { [exc |-> None, val |-> v] : v \in ParamsValues }

\* A load_params whose handlers log and forget the `raise`.
load_params_noraise(o) ==
    IF o.exc = None
    THEN [ret |-> o.val, exc |-> None,
          lines |-> << LogLine("DEBUG", "load_params", "Parameters retrieved from %s", "params.yaml") >>]
    ELSE [ret |-> NoParams, exc |-> None,
          lines |-> << LogLine("ERROR", "load_params", "Unexpected error occured: %s", o.exc) >>]

load_params(o) ==
    IF o.exc = None
    THEN [ret |-> o.val, exc |-> None,
          lines |-> << LogLine("DEBUG", "load_params", "Parameters retrieved from %s", "params.yaml") >>]
    ELSE IF IsInstance(o.exc, "FileNotFoundError")
    THEN [ret |-> NoParams, exc |-> o.exc,
          lines |-> << LogLine("ERROR", "load_params", "File not found: %s", o.exc) >>]
    ELSE IF IsInstance(o.exc, "YAMLError")
    THEN [ret |-> NoParams, exc |-> o.exc,
          lines |-> << LogLine("ERROR", "load_params", "YAML Error: %s", o.exc) >>]
    ELSE IF IsInstance(o.exc, "Exception")
    THEN [ret |-> NoParams, exc |-> o.exc,
          lines |-> << LogLine("ERROR", "load_params", "Unexpected error occured: %s", o.exc) >>]
    ELSE [ret |-> NoParams, exc |-> o.exc, lines |-> << >>]

\* params['data_ingestion']['test_size']
lookup_test_size(p) ==
    CASE p.shape = "None"  -> [ret |-> NoSize, exc |-> "TypeError"]
      [] p.shape = "nokey" -> [ret |-> NoSize, exc |-> "KeyError"]
      [] OTHER             -> [ret |-> p.test_size, exc |-> None]

(***************************************************************************)
(* Frames.  A frame has ordered column names and ordered rows; a row keeps *)
(* its index label and one cell per column.  A cell is <<key, column of    *)
(* the CSV it was read from>>, so a cell moved to another row or column is *)
(* told apart.  Frames live in a heap (a sequence, reference = position),  *)
(* so "the same instance" is "the same reference".                         *)
(***************************************************************************)
AllCols == << "v1", "v2", "Unnamed: 2", "Unnamed: 3", "Unnamed: 4", "v3" >>
Placeholders == << "Unnamed: 2", "Unnamed: 3", "Unnamed: 4" >>
RenameMap == ("v1" :> "target") @@ ("v2" :> "text")

Range(s) == { s[i] : i \in DOMAIN s }

EmptyFrame == [cols |-> << >>, rows |-> << >>]

\* The columns of AllCols that are in S, in file order.
ColSeq(S) == SelectSeq(AllCols, LAMBDA c : c \in S)

MkFrame(S, keys) ==
    LET cs == ColSeq(S) IN
    [cols |-> cs,
     rows |-> [i \in DOMAIN keys |->
                 [idx |-> i - 1, cells |-> [j \in DOMAIN cs |-> << keys[i], cs[j] >>]]]]

\* The contents a row can have: two rows with the same key are duplicates.
Keys == {"ham", "spam"}
KeySeqs == UNION { [1..n -> Keys] : n \in 0..MaxRows }

CsvFrames == { MkFrame(S, k) : S \in SUBSET Range(AllCols), k \in KeySeqs }

(***************************************************************************)
(* load_data                                                               *)
(***************************************************************************)
DataOutcomes ==
    { [exc |-> e, frame |-> EmptyFrame] : e \in {"ParserError", "EmptyDataError", "URLError"} }
    \cup { [exc |-> None, frame |-> f] : f \in CsvFrames }

\* pd.read_csv builds a new frame; the heap grows by one.
load_data_swallow(h, o) ==
    IF o.exc = None
    THEN [heap |-> Append(h, o.frame), ret |-> Len(h) + 1, exc |-> None,
          lines |-> << LogLine("DEBUG", "load_data", "Data loaded from %s", "spam.csv") >>]
    ELSE [heap |-> h, ret |-> NoRef, exc |-> None,
          lines |-> << LogLine("ERROR", "load_data", "Unexpected error during data loading: %s", o.exc) >>]

load_data(h, o) ==
    IF o.exc = None
    THEN [heap |-> Append(h, o.frame), ret |-> Len(h) + 1, exc |-> None,
          lines |-> << LogLine("DEBUG", "load_data", "Data loaded from %s", "spam.csv") >>]
    ELSE IF IsInstance(o.exc, "ParserError")
    THEN [heap |-> h, ret |-> NoRef, exc |-> o.exc,
          lines |-> << LogLine("ERROR", "load_data", "Unable to parse csv file: %s", o.exc) >>]
    ELSE IF IsInstance(o.exc, "Exception")
    THEN [heap |-> h, ret |-> NoRef, exc |-> o.exc,
          lines |-> << LogLine("ERROR", "load_data", "Unexpected error during data loading: %s", o.exc) >>]
    ELSE [heap |-> h, ret |-> NoRef, exc |-> o.exc, lines |-> << >>]

(***************************************************************************)
(* preprocess_data                                                         *)
(***************************************************************************)
\* The positions of the columns of f that are not in the set S.
KeepPos(f, S) == SelectSeq([j \in DOMAIN f.cols |-> j], LAMBDA j : f.cols[j] \notin S)

Without(f, S) ==
    LET keep == KeepPos(f, S) IN
    [cols |-> [j \in DOMAIN keep |-> f.cols[keep[j]]],
     rows |-> [i \in DOMAIN f.rows |->
                 [idx |-> f.rows[i].idx,
                  cells |-> [j \in DOMAIN keep |-> f.rows[i].cells[keep[j]]]]]]

\* A drop that removes the labels one at a time and stops at the first absent one.
drop_partial(f, labels) ==
    LET missing == { l \in Range(labels) : l \notin Range(f.cols) }
        first == IF missing = {} THEN Len(labels) + 1
                 ELSE CHOOSE i \in DOMAIN labels :
                        /\ labels[i] \in missing
                        /\ \A j \in 1..(i - 1) : labels[j] \notin missing
    IN  [frame |-> Without(f, { labels[j] : j \in 1..(first - 1) }),
         exc |-> IF missing = {} THEN None ELSE "KeyError"]

\* A drop that ignores absent labels (errors='ignore').
drop_ignore(f, labels) == [frame |-> Without(f, Range(labels)), exc |-> None]

\* DataFrame.drop(columns=labels, inplace=True): every label is looked up
\* before anything is removed; an absent label raises KeyError and the frame
\* is not touched.
drop(f, labels) ==
    IF \E l \in Range(labels) : l \notin Range(f.cols)
    THEN [frame |-> f, exc |-> "KeyError"]
    ELSE [frame |-> Without(f, Range(labels)), exc |-> None]

\* DataFrame.rename(columns=m, inplace=True): errors='ignore' is the default,
\* a key of m that is no column is skipped and nothing is raised.
rename(f, m) ==
    [f EXCEPT !.cols = [j \in DOMAIN f.cols |->
        IF f.cols[j] \in DOMAIN m THEN m[f.cols[j]] ELSE f.cols[j]]]

preprocess_except(h, e) ==
    IF IsInstance(e, "KeyError")
    THEN [heap |-> h, ret |-> NoRef, exc |-> e,
          lines |-> << LogLine("ERROR", "preprocess_data", "Missing column in the dataframe: %s", e) >>]
    ELSE IF IsInstance(e, "Exception")
    THEN [heap |-> h, ret |-> NoRef, exc |-> e,
          lines |-> << LogLine("ERROR", "preprocess_data", "Unexpected error during data loading: %s", e) >>]
    ELSE [heap |-> h, ret |-> NoRef, exc |-> e, lines |-> << >>]

\* A preprocess_data that works on a copy and returns the copy.
preprocess_data_copy(h, ref) ==
    IF ref = NoRef THEN preprocess_except(h, "AttributeError")
    ELSE LET d == drop(h[ref], Placeholders) IN
         IF d.exc # None THEN preprocess_except(h, d.exc)
         ELSE [heap |-> Append(h, rename(d.frame, RenameMap)), ret |-> Len(h) + 1, exc |-> None,
               lines |-> << LogLine("DEBUG", "preprocess_data", "Data pre-processing completed", None) >>]

\* df is a reference into the heap; df = None makes df.drop an AttributeError.
preprocess_data(h, ref) ==
    IF ref = NoRef THEN preprocess_except(h, "AttributeError")
    ELSE LET d == drop(h[ref], Placeholders) IN
         IF d.exc # None
         THEN preprocess_except([h EXCEPT ![ref] = d.frame], d.exc)
         ELSE [heap |-> [h EXCEPT ![ref] = rename(d.frame, RenameMap)], ret |-> ref, exc |-> None,
               lines |-> << LogLine("DEBUG", "preprocess_data", "Data pre-processing completed", None) >>]

(***************************************************************************)
(* train_test_split(final_df, test_size=ts, random_state=42, shuffle=True) *)
(***************************************************************************)
Shuffles(n) == { p \in [1..n -> 1..n] : \A i, j \in 1..n : i # j => p[i] # p[j] }

Ceil(num, den) == (num + den - 1) \div den

\* round(num/den), Python 3 (ties to even).
Round(num, den) ==
    LET q == num \div den
        r == num % den
    IN  IF 2 * r < den THEN q
        ELSE IF 2 * r > den THEN q + 1
        ELSE IF q % 2 = 0 THEN q ELSE q + 1

\* The size check of sklearn (_validate_shuffle_split): the result is
\* <<n_train, n_test>>, or << >> where sklearn raises ValueError.
\* test_size=None means the default 0.25.  n_test = ceil(test_size * n);
\* for the fractions used here the float product has the ceiling of the
\* exact product.
split_sizes(n, ts) ==
    LET t == IF ts.kind = "none" THEN FloatSize(1, 4) ELSE ts
        valid == \/ t.kind = "f" /\ 0 < t.num /\ t.num < t.den
                 \/ t.kind = "i" /\ 0 < t.num /\ t.num < n
        n_test == IF t.kind = "f" THEN Ceil(t.num * n, t.den) ELSE t.num
        n_train == n - n_test
    IN  IF valid /\ n_train > 0 THEN << n_train, n_test >> ELSE << >>

Take(f, pos) == [cols |-> f.cols, rows |-> [i \in DOMAIN pos |-> f.rows[pos[i]]]]

\* A split whose train slice starts one position early.
train_test_split_overlap(h, ref, ts, perm) ==
    LET f == h[ref]
        sz == split_sizes(Len(f.rows), ts)
    IN  IF sz = << >> THEN [heap |-> h, train |-> NoRef, test |-> NoRef, exc |-> "ValueError"]
        ELSE [heap |-> h \o << Take(f, SubSeq(perm, sz[2], sz[2] + sz[1] - 1)),
                              Take(f, SubSeq(perm, 1, sz[2])) >>,
              train |-> Len(h) + 1, test |-> Len(h) + 2, exc |-> None]

\* perm is the shuffle of the row positions (fixed by the seed, any
\* permutation here): test = perm[:n_test], train = perm[n_test:n_test+n_train].
\* Both parts are new frames that keep the rows' index labels.
train_test_split(h, ref, ts, perm) ==
    LET f == h[ref]
        sz == split_sizes(Len(f.rows), ts)
    IN  IF sz = << >> THEN [heap |-> h, train |-> NoRef, test |-> NoRef, exc |-> "ValueError"]
        ELSE [heap |-> h \o << Take(f, SubSeq(perm, sz[2] + 1, sz[2] + sz[1])),
                              Take(f, SubSeq(perm, 1, sz[2])) >>,
              train |-> Len(h) + 1, test |-> Len(h) + 2, exc |-> None]

(***************************************************************************)
(* save_data                                                               *)
(***************************************************************************)
\* The file system under ./data: which directories exist, and the two files.
File(st, f) ==
    [st |-> st, cols |-> f.cols, rows |-> [i \in DOMAIN f.rows |-> f.rows[i].cells]]
Absent == File("absent", EmptyFrame)
Stale == File("stale", EmptyFrame)          \* left by an earlier run
Partial == File("partial", EmptyFrame)      \* a write that failed midway
\* DataFrame.to_csv(path, index=False): header and cells, no index labels.
to_csv(f) == File("written", f)

FsStates ==
    { [dir |-> "none", train |-> Absent, test |-> Absent],
      [dir |-> "data", train |-> Absent, test |-> Absent],
      [dir |-> "raw", train |-> Stale, test |-> Stale] }

\* Where the call fails, and whether the failing step left something behind
\* (makedirs: ./data without ./data/raw; to_csv: a truncated file).
SaveOutcomes == [failAt : {"none", "makedirs", "train", "test"}, partial : BOOLEAN]

save_except(fs, e) ==
    [fs |-> fs, exc |-> None,
     lines |-> << LogLine("ERROR", "save_data", "Unexpected error occured while saving the data: %s", e) >>]

save_debug(fs) ==
    [fs |-> fs, exc |-> None,
     lines |-> << LogLine("DEBUG", "save_data", "Train and test data saved to %s", "./data/raw") >>]

\* A save_data whose handler re-raises like the other stages.
save_data_reraise(h, train, test, fs, o) ==
    IF o.failAt = "none"
    THEN save_debug([dir |-> "raw", train |-> to_csv(h[train]), test |-> to_csv(h[test])])
    ELSE [fs |-> fs, exc |-> "OSError",
          lines |-> << LogLine("ERROR", "save_data", "Unexpected error occured while saving the data: %s", "OSError") >>]

\* A save_data that writes test.csv before train.csv.
save_data_test_first(h, train, test, fs, o) ==
    IF o.failAt = "makedirs" THEN save_except(fs, "OSError")
    ELSE IF o.failAt = "test" THEN save_except([fs EXCEPT !.dir = "raw"], "OSError")
    ELSE IF o.failAt = "train"
    THEN save_except([fs EXCEPT !.dir = "raw", !.test = to_csv(h[test])], "OSError")
    ELSE save_debug([dir |-> "raw", train |-> to_csv(h[train]), test |-> to_csv(h[test])])

save_data(h, train, test, fs, o) ==
    IF o.failAt = "makedirs"
    THEN save_except([fs EXCEPT !.dir = IF o.partial /\ fs.dir = "none" THEN "data" ELSE fs.dir],
                     "OSError")
    ELSE LET fs1 == [fs EXCEPT !.dir = "raw"] IN
         IF o.failAt = "train"
         THEN save_except([fs1 EXCEPT !.train = IF o.partial THEN Partial ELSE fs.train], "OSError")
         ELSE LET fs2 == [fs1 EXCEPT !.train = to_csv(h[train])] IN
              IF o.failAt = "test"
              THEN save_except([fs2 EXCEPT !.test = IF o.partial THEN Partial ELSE fs.test], "OSError")
              ELSE save_debug([fs2 EXCEPT !.test = to_csv(h[test])])

\* os.makedirs(exist_ok=True) on a directory that exists does nothing and
\* cannot be the failing step.
SaveOutcomesIn(fs) == { o \in SaveOutcomes : o.failAt = "makedirs" => fs.dir # "raw" }

(***************************************************************************)
(* main                                                                    *)
(***************************************************************************)
\* A handler that logs and re-raises, as the stage functions do.
main_except_reraise(e) ==
    [lines |-> << LogLine("ERROR", "main", "Failed to complete the data ingestion process: %s", e) >>,
     printed |-> << >>, exit |-> "raised"]

\* except Exception as e: log, print, fall off the end of main.
main_except(e) ==
    IF IsInstance(e, "Exception")
    THEN [lines |-> << LogLine("ERROR", "main", "Failed to complete the data ingestion process: %s", e) >>,
          printed |-> << << "Error: ", e >> >>, exit |-> "returned"]
    ELSE [lines |-> << >>, printed |-> << >>, exit |-> "raised"]

Stages ==
    << "load_params", "test_size", "load_data", "preprocess_data", "train_test_split", "save_data" >>

\* The statement main runs after `stage` ended with exception e (None: none).
after(stage, e) ==
    IF e # None THEN "except"
    ELSE IF stage = "save_data" THEN "done"
    ELSE Stages[(CHOOSE i \in DOMAIN Stages : Stages[i] = stage) + 1]

NoCall ==
    [fn |-> None, raised |-> None, exc |-> None, arg |-> NoRef, ret |-> NoRef,
     lines |-> << >>, before |-> EmptyFrame, after |-> EmptyFrame, afterSuccess |-> FALSE]

VARIABLES
    pc,          \* main: the stage to run next, "except" (in the handler) or "done"
    exc,         \* the exception propagating in main, or None
    exit,        \* how main ended: "running", "returned", "raised"
    log,         \* the lines logged so far
    printed,     \* what print() wrote
    params, test_size, heap, df, final_df, train_data, test_data,   \* main's locals, the frames
    fs,          \* the file system under ./data
    fs0,         \* history: the file system when the run started
    frame0,      \* history: the frame as it was read
    calls,       \* history: the stages started, each with whether its operation went well
    last,        \* history: the last call of one of the functions and what it did
    ncalls       \* direct calls of preprocess_data made by the caller (SpecCalls)

vars == << pc, exc, exit, log, printed, params, test_size, heap, df, final_df,
           train_data, test_data, fs, fs0, frame0, calls, last, ncalls >>

Init ==
    /\ pc = "load_params" /\ exc = None /\ exit = "running"
    /\ log = << >> /\ printed = << >>
    /\ params = NoParams /\ test_size = NoSize
    /\ heap = << >> /\ df = NoRef /\ final_df = NoRef /\ train_data = NoRef /\ test_data = NoRef
    /\ fs \in FsStates /\ fs0 = fs
    /\ frame0 = EmptyFrame
    /\ calls = << >> /\ last = NoCall /\ ncalls = 0

Called(stage, ok) == calls' = Append(calls, [stage |-> stage, ok |-> ok])

LoadParams ==
    /\ pc = "load_params"
    /\ \E o \in ParamsOutcomes :
         LET r == load_params(o) IN
         /\ params' = r.ret /\ exc' = r.exc /\ log' = log \o r.lines
         /\ pc' = after("load_params", r.exc)
         /\ Called("load_params", o.exc = None)
         /\ last' = [NoCall EXCEPT !.fn = "load_params", !.raised = o.exc, !.exc = r.exc,
                                   !.lines = r.lines]
    /\ UNCHANGED << exit, printed, test_size, heap, df, final_df, train_data, test_data,
                    fs, fs0, frame0, ncalls >>

LookupTestSize ==
    /\ pc = "test_size"
    /\ LET r == lookup_test_size(params) IN
         /\ test_size' = r.ret /\ exc' = r.exc
         /\ pc' = after("test_size", r.exc)
         /\ Called("test_size", r.exc = None)
    /\ UNCHANGED << exit, log, printed, params, heap, df, final_df, train_data, test_data,
                    fs, fs0, frame0, last, ncalls >>

LoadData ==
    /\ pc = "load_data"
    /\ \E o \in DataOutcomes :
         LET r == load_data(heap, o) IN
         /\ heap' = r.heap /\ df' = r.ret /\ exc' = r.exc /\ log' = log \o r.lines
         /\ frame0' = o.frame
         /\ pc' = after("load_data", r.exc)
         /\ Called("load_data", o.exc = None)
         /\ last' = [NoCall EXCEPT !.fn = "load_data", !.raised = o.exc, !.exc = r.exc,
                                   !.ret = r.ret, !.lines = r.lines]
    /\ UNCHANGED << exit, printed, params, test_size, final_df, train_data, test_data,
                    fs, fs0, ncalls >>

\* What a call preprocess_data(ref) does to the heap and the log, and its record.
Preprocess(ref, r) ==
    /\ heap' = r.heap /\ log' = log \o r.lines
    /\ last' = [fn |-> "preprocess_data",
                raised |-> IF ref = NoRef THEN "AttributeError" ELSE drop(heap[ref], Placeholders).exc,
                exc |-> r.exc, arg |-> ref, ret |-> r.ret, lines |-> r.lines,
                before |-> IF ref = NoRef THEN EmptyFrame ELSE heap[ref],
                after |-> IF ref = NoRef THEN EmptyFrame ELSE r.heap[ref],
                afterSuccess |-> last.fn = "preprocess_data" /\ last.arg = ref
                                 /\ (last.exc = None \/ last.afterSuccess)]

PreprocessData ==
    /\ pc = "preprocess_data"
    /\ LET r == preprocess_data(heap, df) IN
         /\ Preprocess(df, r)
         /\ final_df' = r.ret /\ exc' = r.exc
         /\ pc' = after("preprocess_data", r.exc)
         /\ Called("preprocess_data", r.exc = None)
    /\ UNCHANGED << exit, printed, params, test_size, df, train_data, test_data,
                    fs, fs0, frame0, ncalls >>

TrainTestSplit ==
    /\ pc = "train_test_split"
    /\ \E perm \in Shuffles(Len(heap[final_df].rows)) :
         LET r == train_test_split(heap, final_df, test_size, perm) IN
         /\ heap' = r.heap /\ train_data' = r.train /\ test_data' = r.test /\ exc' = r.exc
         /\ pc' = after("train_test_split", r.exc)
         /\ Called("train_test_split", r.exc = None)
    /\ UNCHANGED << exit, log, printed, params, test_size, df, final_df,
                    fs, fs0, frame0, last, ncalls >>

SaveData ==
    /\ pc = "save_data"
    /\ \E o \in SaveOutcomesIn(fs) :
         LET r == save_data(heap, train_data, test_data, fs, o) IN
         /\ fs' = r.fs /\ exc' = r.exc /\ log' = log \o r.lines
         /\ pc' = after("save_data", r.exc)
         /\ exit' = IF r.exc = None THEN "returned" ELSE exit
         /\ Called("save_data", o.failAt = "none")
         /\ last' = [NoCall EXCEPT !.fn = "save_data",
                                   !.raised = IF o.failAt = "none" THEN None ELSE "OSError",
                                   !.exc = r.exc, !.lines = r.lines]
    /\ UNCHANGED << printed, params, test_size, heap, df, final_df, train_data, test_data,
                    fs0, frame0, ncalls >>

MainExcept ==
    /\ pc = "except"
    /\ LET r == main_except(exc) IN
         /\ log' = log \o r.lines /\ printed' = printed \o r.printed /\ exit' = r.exit
         /\ exc' = IF r.exit = "returned" THEN None ELSE exc
    /\ pc' = "done"
    /\ UNCHANGED << params, test_size, heap, df, final_df, train_data, test_data,
                    fs, fs0, frame0, calls, last, ncalls >>

Next ==
    \/ LoadParams
    \/ LookupTestSize
    \/ LoadData
    \/ PreprocessData
    \/ TrainTestSplit
    \/ SaveData
    \/ MainExcept

Spec == Init /\ [][Next]_vars

(***************************************************************************)
(* preprocess_data called directly: the caller reads a frame and calls the *)
(* function on it, again and again.                                        *)
(***************************************************************************)
CallerLoad ==
    /\ heap = << >> /\ ncalls = 0
    /\ \E f \in CsvFrames : heap' = << f >> /\ frame0' = f
    /\ df' = 1
    /\ UNCHANGED << pc, exc, exit, log, printed, params, test_size, final_df, train_data,
                    test_data, fs, fs0, calls, last, ncalls >>

CallerPreprocess ==
    /\ df # NoRef /\ ncalls < MaxCalls
    /\ LET r == preprocess_data(heap, df) IN
         /\ Preprocess(df, r)
         /\ final_df' = r.ret
    /\ ncalls' = ncalls + 1
    /\ UNCHANGED << pc, exc, exit, printed, params, test_size, df, train_data, test_data,
                    fs, fs0, frame0, calls >>

NextCalls ==
    \/ CallerLoad
    \/ CallerPreprocess

SpecCalls == Init /\ [][NextCalls]_vars

(***************************************************************************)
(* Properties                                                              *)
(***************************************************************************)
MainErrors == SelectSeq(log, LAMBDA l : l.level = "ERROR" /\ l.fn = "main")
ErrorsOf(fn) == SelectSeq(log, LAMBDA l : l.level = "ERROR" /\ l.fn = fn)
StageCalled(stage) == \E i \in DOMAIN calls : calls[i].stage = stage
\* A stage before save_data whose operation failed.
StageFailed == \E i \in DOMAIN calls : ~calls[i].ok /\ calls[i].stage # "save_data"
SaveFailed == \E i \in DOMAIN calls : ~calls[i].ok /\ calls[i].stage = "save_data"
FiveCols == << "v1", "v2", "Unnamed: 2", "Unnamed: 3", "Unnamed: 4" >>
PreprocessCalled == last.fn = "preprocess_data" /\ last.arg # NoRef

\* C1: main never lets an exception out: it always ends by returning, with no
\* exception in flight; when a stage failed, the handler has logged exactly
\* one error line of its own and printed one message, and a run that has not
\* ended can always go on (it cannot get stuck before returning).
C1_MainAlwaysReturns ==
    /\ pc = "done" => exit = "returned" /\ exc = None
    /\ pc = "done" /\ StageFailed =>
          /\ Len(MainErrors) = 1 /\ Len(printed) = 1
          /\ MainErrors[1].msg = "Failed to complete the data ingestion process: %s"
    /\ pc = "done" /\ ~StageFailed => Len(MainErrors) = 0 /\ Len(printed) = 0
    /\ pc # "done" => exit = "running" /\ ENABLED Next

C1_Witness == pc = "done" /\ StageFailed /\ exit = "returned" /\ Len(printed) = 1

\* C2: when load_params, load_data or preprocess_data fails, the call logs
\* exactly one line, at error level, and the exception that was raised inside
\* is the one that leaves the function (so nothing is returned); a missing
\* params file gives FileNotFoundError after the one 'File not found' line.
C2_LogOnceThenReraise ==
    last.fn \in {"load_params", "load_data", "preprocess_data"} /\ last.raised # None =>
        /\ last.exc = last.raised
        /\ last.ret = NoRef
        /\ Len(last.lines) = 1 /\ last.lines[1].level = "ERROR"
        /\ last.lines[1].fn = last.fn /\ last.lines[1].arg = last.raised
        /\ (last.fn = "load_params" /\ last.raised = "FileNotFoundError" =>
               last.lines[1].msg = "File not found: %s")
        /\ (last.fn = "load_params" => params = NoParams)

C2_Witness ==
    /\ last.fn = "load_params" /\ last.raised = "FileNotFoundError"
    /\ last.exc = "FileNotFoundError" /\ pc = "except"

\* C3: save_data never raises: when a step of it fails it logs one error line
\* and returns, main's handler does not run and main logs no
\* 'Failed to complete' line.
C3_SaveDataSwallows ==
    StageCalled("save_data") =>
        /\ exc = None /\ pc = "done" /\ exit = "returned"
        /\ Len(MainErrors) = 0 /\ Len(printed) = 0
        /\ last.fn = "save_data" /\ last.exc = None
        /\ (SaveFailed => Len(last.lines) = 1 /\ last.lines[1].level = "ERROR"
                          /\ Len(ErrorsOf("save_data")) = 1)
        /\ (~SaveFailed => Len(ErrorsOf("save_data")) = 0)

C3_Witness == SaveFailed /\ pc = "done" /\ exit = "returned" /\ fs.train.st # "written"

Idx(f) == { f.rows[i].idx : i \in DOMAIN f.rows }
Cells(f) == [i \in DOMAIN f.rows |-> f.rows[i].cells]
\* A run that went through every stage and whose save_data wrote both files.
SuccessfulRun == pc = "done" /\ StageCalled("save_data") /\ ~SaveFailed /\ ~StageFailed

\* The split of a successful run with test_size = 0.2, with n_test rows expected
\* in test.csv: the files hold the rows of the two parts, N rows together,
\* and the parts partition the rows of the Dataset (rows told apart by their
\* index label).
SplitIsPartition(n_test) ==
    LET data == heap[final_df]
        train == heap[train_data]
        test == heap[test_data]
        N == Len(data.rows)
    IN  /\ fs.train.st = "written" /\ fs.test.st = "written"
        /\ fs.train.rows = Cells(train) /\ fs.test.rows = Cells(test)
        /\ Len(fs.train.rows) + Len(fs.test.rows) = N
        /\ Len(fs.test.rows) = n_test
        /\ Idx(train) \cup Idx(test) = Idx(data)
        /\ Idx(train) \cap Idx(test) = {}
        /\ Cardinality(Idx(train)) = Len(train.rows) /\ Cardinality(Idx(test)) = Len(test.rows)
        /\ \A r \in Range(train.rows) \cup Range(test.rows) : r \in Range(data.rows)

\* C4 as stated: after a successful run with test_size = 0.2 the two files hold
\* the N rows of the Dataset, split into disjoint parts, test.csv having
\* round(0.2 * N) rows.
C4_Original ==
    SuccessfulRun /\ test_size = FloatSize(1, 5) =>
        SplitIsPartition(Round(Len(heap[final_df].rows), 5))

\* C4, amended: the same with test.csv having ceil(0.2 * N) rows.
C4_SplitPartitionCeil ==
    SuccessfulRun /\ test_size = FloatSize(1, 5) =>
        SplitIsPartition(Ceil(Len(heap[final_df].rows), 5))

C4_Witness ==
    /\ SuccessfulRun /\ test_size = FloatSize(1, 5)
    /\ Len(fs.test.rows) = 1 /\ Len(fs.train.rows) >= 2
    /\ \E i \in DOMAIN fs.train.rows : fs.train.rows[i] = fs.test.rows[1]

\* C5 as stated: preprocess_data raises KeyError, after one error line, when
\* any column it names is absent: a placeholder column, or v1, or v2.
C5_AnyMissingColumnRaises ==
    PreprocessCalled /\ (\E c \in Range(FiveCols) : c \notin Range(last.before.cols)) =>
        /\ last.exc = "KeyError"
        /\ Len(last.lines) = 1 /\ last.lines[1].level = "ERROR"

\* C6: preprocess_data on a frame that lacks a placeholder column raises
\* KeyError and leaves the frame as it was: nothing dropped, nothing renamed.
C6_NoPartialMutation ==
    PreprocessCalled /\ (\E c \in Range(Placeholders) : c \notin Range(last.before.cols)) =>
        /\ last.exc = "KeyError"
        /\ last.after = last.before
        /\ heap[last.arg] = last.before

C6_Witness ==
    /\ PreprocessCalled /\ last.exc = "KeyError"
    /\ "Unnamed: 2" \in Range(last.before.cols) /\ "Unnamed: 3" \notin Range(last.before.cols)
    /\ "v1" \in Range(last.before.cols) /\ Len(last.before.rows) > 0

\* C7: on a frame with exactly the columns v1, v2, Unnamed: 2, Unnamed: 3,
\* Unnamed: 4 preprocess_data returns the instance it was given, which then
\* has exactly the columns target (the cells of v1) and text (the cells of
\* v2), the same rows in the same order, the cells unchanged.
C7_PreprocessFiveColumns ==
    PreprocessCalled /\ last.before.cols = FiveCols =>
        /\ last.exc = None
        /\ last.ret = last.arg
        /\ last.after.cols = << "target", "text" >>
        /\ Len(last.after.rows) = Len(last.before.rows)
        /\ \A i \in DOMAIN last.before.rows :
              /\ last.after.rows[i].idx = last.before.rows[i].idx
              /\ last.after.rows[i].cells =
                   << last.before.rows[i].cells[1], last.before.rows[i].cells[2] >>
              /\ last.after.rows[i].cells[1][2] = "v1"
              /\ last.after.rows[i].cells[2][2] = "v2"

C7_Witness ==
    /\ PreprocessCalled /\ last.before.cols = FiveCols /\ last.exc = None
    /\ Len(last.after.rows) = MaxRows
    /\ last.after.rows[1].cells # last.after.rows[2].cells

\* C8: the stages start in the order load_params, test_size lookup,
\* load_data, preprocess_data, split, save_data, each at most once and only
\* when every earlier stage went well; until load_data starts nothing has
\* been read, until save_data starts the file system is as the run found it.
C8_StagesInOrder ==
    /\ Len(calls) <= Len(Stages)
    /\ \A i \in DOMAIN calls : calls[i].stage = Stages[i]
    /\ \A i \in DOMAIN calls : i < Len(calls) => calls[i].ok
    /\ ~StageCalled("load_data") => heap = << >> /\ df = NoRef
    /\ ~StageCalled("save_data") => fs = fs0
    /\ StageFailed => pc \in {"except", "done"}

C8_Witness ==
    /\ pc = "done" /\ Len(calls) = 4 /\ ~calls[4].ok /\ fs = fs0 /\ fs.dir = "none"

Saved(l) == l.fn = "save_data" /\ l.level = "DEBUG"

\* C9: in a save_data call the directory comes first, then train.csv, then
\* test.csv, then the 'saved' debug line: a test.csv touched by the call
\* means train.csv was written by it, a train.csv touched means ./data/raw
\* exists, and the debug line means both files were written.
C9_SaveOrder ==
    StageCalled("save_data") =>
        /\ fs.train.st \in {"written", "partial"} => fs.dir = "raw"
        /\ fs.test.st \in {"written", "partial"} =>
              fs.train.st = "written" /\ fs.train = to_csv(heap[train_data])
        /\ (\E i \in DOMAIN log : Saved(log[i])) =>
              /\ fs.train = to_csv(heap[train_data]) /\ fs.test = to_csv(heap[test_data])
              /\ Len(ErrorsOf("save_data")) = 0

\* The converse fails: train.csv new, test.csv stale, only an error line.
C9_Witness ==
    /\ StageCalled("save_data") /\ fs.train.st = "written" /\ fs.test.st = "stale"
    /\ Len(ErrorsOf("save_data")) = 1 /\ ~(\E i \in DOMAIN log : Saved(log[i]))

\* C10 as stated: a call of preprocess_data on a frame on which an earlier call
\* succeeded raises KeyError, logs one error line and leaves the frame with
\* exactly the columns target, text.
C10_Original ==
    PreprocessCalled /\ last.afterSuccess =>
        /\ last.exc = "KeyError"
        /\ Len(last.lines) = 1 /\ last.lines[1].level = "ERROR"
        /\ last.after.cols = << "target", "text" >>

\* C10, amended: such a call raises KeyError, logs one error line and leaves
\* the frame as the first call left it: without the placeholder columns, v1
\* and v2 renamed; that is exactly target, text when the frame was read with
\* exactly the five columns of the dataset.
C10_SecondCallRaises ==
    PreprocessCalled /\ last.afterSuccess =>
        /\ last.exc = "KeyError"
        /\ Len(last.lines) = 1 /\ last.lines[1].level = "ERROR"
        /\ last.lines[1].msg = "Missing column in the dataframe: %s"
        /\ last.after = last.before
        /\ last.after = rename(Without(frame0, Range(Placeholders)), RenameMap)
        /\ (frame0.cols = FiveCols => last.after.cols = << "target", "text" >>)

C10_Witness ==
    /\ PreprocessCalled /\ last.afterSuccess /\ last.exc = "KeyError" /\ ncalls = 2
    /\ frame0.cols = FiveCols /\ Len(frame0.rows) > 0
====
